---------------------------- MODULE Spec2Model ----------------------------
(***************************************************************************)
(* A model of the baby-names pipeline.                                     *)
(*                                                                         *)
(*   scripts/step1.py  reads a zip archive, keeps the ".txt" members,      *)
(*                     splits every line on commas and writes data.csv     *)
(*   scripts/step2.py  aggregate functions over the table of data.csv      *)
(*                                                                         *)
(* Text is modelled as a sequence of one-character strings, so that        *)
(* slicing (fn[3:7]), str.endswith, str.splitlines and str.split are       *)
(* computed character by character, as Python computes them.               *)
(***************************************************************************)
EXTENDS Integers, Sequences, FiniteSets, TLC

VARIABLES
    temp_zip,    \* step1: the archive, a sequence of [filename, data] members
    pc,          \* step1: position of the script
    allfiles,    \* step1: the ".txt" member names, in namelist order
    fi,          \* step1: index in allfiles of the member being processed
    year,        \* step1: fn[3:7] of the member being processed
    lines,       \* step1: the decoded lines of the member being processed
    li,          \* step1: index in lines of the next line to parse
    data_list,   \* step1: header row, then one row per parsed line
    data_csv,    \* step1: the file data.csv
    err,         \* step1: the exception that ended the run, or "none"
    df,          \* step2: the table read from data.csv
    called,      \* step2: the function whose result is held, or "none"
    out          \* step2: result of the function last called

vars == <<temp_zip, pc, allfiles, fi, year, lines, li, data_list, data_csv,
          err, df, called, out>>

step1vars == <<temp_zip, pc, allfiles, fi, year, lines, li, data_list,
               data_csv, err>>

step2vars == <<df, called, out>>

---------------------------------------------------------------------------
(* Bounds of the model.                                                    *)

MaxEntries == 3     \* members of the archive

MaxLines == 2       \* lines joined into one member's data

MaxRows == 3        \* rows of the table handed to step2

---------------------------------------------------------------------------
(* Text helpers.                                                           *)

Digits == {"0", "1", "2", "3", "4", "5", "6", "7", "8", "9"}

Min(a, b) == IF a <= b THEN a ELSE b

\* Python s[a:b] for 0 <= a <= b (0-based, end exclusive, clamped to len(s)).
Slice(s, a, b) == SubSeq(s, a + 1, Min(b, Len(s)))

\* Python s.endswith(suffix).
EndsWith(s, suffix) ==
    /\ Len(s) >= Len(suffix)
    /\ SubSeq(s, Len(s) - Len(suffix) + 1, Len(s)) = suffix

\* Whether Python int(s) returns: a non-empty run of decimal digits.  (int
\* also accepts a sign, surrounding blanks and "_" separators; no member
\* name of the model holds such characters.)
IntAccepts(s) == Len(s) > 0 /\ \A i \in 1..Len(s) : s[i] \in Digits

\* The byte 0xFF, which is never part of valid UTF-8.
BadByte == "xFF"

\* Whether bytes.decode("utf-8") returns rather than raising.
DecodeOk(data) == \A i \in 1..Len(data) : data[i] # BadByte

\* Python str.split(sep) for a one-character sep: always at least one field.
RECURSIVE SplitFrom(_, _, _, _)
SplitFrom(s, sep, i, cur) ==
    IF i > Len(s) THEN <<cur>>
    ELSE IF s[i] = sep THEN <<cur>> \o SplitFrom(s, sep, i + 1, <<>>)
    ELSE SplitFrom(s, sep, i + 1, Append(cur, s[i]))

Split(s, sep) == SplitFrom(s, sep, 1, <<>>)

\* Python str.splitlines() for text whose only line break is "\n": a final
\* line break does not open a last empty line, and "" has no lines.
RECURSIVE SplitLinesFrom(_, _, _)
SplitLinesFrom(s, i, cur) ==
    IF i > Len(s) THEN (IF cur = <<>> THEN <<>> ELSE <<cur>>)
    ELSE IF s[i] = "\n" THEN <<cur>> \o SplitLinesFrom(s, i + 1, <<>>)
    ELSE SplitLinesFrom(s, i + 1, Append(cur, s[i]))

SplitLines(s) == SplitLinesFrom(s, 1, <<>>)

\* "\n".join(ls): how the members' data of the model are built.
RECURSIVE JoinLines(_)
JoinLines(ls) ==
    IF ls = <<>> THEN <<>>
    ELSE IF Len(ls) = 1 THEN ls[1]
    ELSE ls[1] \o <<"\n">> \o JoinLines(Tail(ls))

---------------------------------------------------------------------------
(* The archives of the model.                                              *)

TxtSuffix == <<".", "t", "x", "t">>

Yob1880 == <<"y", "o", "b", "1", "8", "8", "0", ".", "t", "x", "t">>

Yob1881 == <<"y", "o", "b", "1", "8", "8", "1", ".", "t", "x", "t">>

ReadMePdf == <<"R", "e", "a", "d", "M", "e", ".", "p", "d", "f">>

ReadMeTxt == <<"R", "E", "A", "D", "M", "E", ".", "t", "x", "t">>

\* Lines a member may hold: a well-formed line, a line whose third field
\* is no number, one field, four fields, and the empty line.
SampleLines ==
    { <<"A", ",", "M", ",", "5">>,
      <<"B", ",", "F", ",", "x">>,
      <<"A">>,
      <<"A", ",", "M", ",", "5", ",", "9">>,
      <<>> }

SeqsUpTo(S, n) == UNION { [1..k -> S] : k \in 0..n }

\* Data of a yearly member: up to MaxLines lines joined by "\n" (a final
\* empty line gives data that ends in a line break), or bytes that are
\* not UTF-8.
TextData == { JoinLines(ls) : ls \in SeqsUpTo(SampleLines, MaxLines) }
              \cup { <<"A", BadByte>> }

MemberNames == {Yob1880, Yob1881, ReadMePdf, ReadMeTxt}

\* The data a member may hold: any of TextData for a yearly file; one
\* sample for the PDF and for README.txt, whose data the script never gets
\* to read.
DataFor(n) ==
    IF n = ReadMePdf THEN { <<"%", BadByte>> }
    ELSE IF n = ReadMeTxt THEN { <<"h", "i">> }
    ELSE TextData

\* The member lists of an archive: up to MaxEntries pairwise distinct
\* names, in any order.
NameLists ==
    { ns \in SeqsUpTo(MemberNames, MaxEntries) :
        \A i, j \in 1..Len(ns) : i # j => ns[i] # ns[j] }

\* The archives whose members are called ns, in that order.
RECURSIVE Archives(_)
Archives(ns) ==
    IF ns = <<>> THEN { <<>> }
    ELSE { <<[filename |-> Head(ns), data |-> d]>> \o rest :
             d \in DataFor(Head(ns)), rest \in Archives(Tail(ns)) }

\* ZipFile.namelist().
NameList(z) == [i \in 1..Len(z) |-> z[i].filename]

\* ZipFile.open(fn).read(): the data of the member called fn (of the last
\* one, were there several).
ReadMember(z, fn) ==
    LET idx == { i \in 1..Len(z) : z[i].filename = fn }
    IN  z[CHOOSE i \in idx : \A j \in idx : j <= i].data

---------------------------------------------------------------------------
(* step1.py                                                                *)

Header == << <<"y", "e", "a", "r">>, <<"n", "a", "m", "e">>,
             <<"g", "e", "n", "d", "e", "r">>, <<"c", "o", "u", "n", "t">> >>

NoFile == [written |-> FALSE, rows |-> <<>>]

\* [f for f in names if f.endswith(".txt")]
RECURSIVE TxtFiles(_)
TxtFiles(names) ==
    IF names = <<>> THEN <<>>
    ELSE IF EndsWith(Head(names), TxtSuffix)
         THEN <<Head(names)>> \o TxtFiles(Tail(names))
         ELSE TxtFiles(Tail(names))

\* Mutant of YearOf: the year is taken once, from the first file.
YearOfFirst(fn) == Slice(allfiles[1], 3, 7)

\* year = fn[3:7]
YearOf(fn) == Slice(fn, 3, 7)

\* [year, name, gender, count]
Row(y, fields) == <<y, fields[1], fields[2], fields[3]>>

\* Mutant of Unpacks: extra fields are tolerated.
UnpacksAtLeast(line) == Len(Split(line, ",")) >= 3

\* name, gender, count = line.split(","): unpacking needs three values.
Unpacks(line) == Len(Split(line, ",")) = 3

\* Mutant of AppendRow: the row is inserted right after the header.
AppendRowFront(dl, row) == <<Head(dl), row>> \o Tail(dl)

\* data_list.append(row)
AppendRow(dl, row) == Append(dl, row)

Step1Idle ==
    /\ temp_zip = <<>> /\ pc = "off" /\ allfiles = <<>> /\ fi = 0
    /\ year = <<>> /\ lines = <<>> /\ li = 0 /\ data_list = <<>>
    /\ data_csv = NoFile /\ err = "none"

Step2Idle == df = <<>> /\ called = "off" /\ out = <<>>

\* After line 30: the archive is in memory, nothing is read yet.
Init1 ==
    /\ \E ns \in NameLists : temp_zip \in Archives(ns)
    /\ pc = "start"
    /\ allfiles = <<>>
    /\ fi = 0
    /\ year = <<>>
    /\ lines = <<>>
    /\ li = 0
    /\ data_list = <<>>
    /\ data_csv = NoFile
    /\ err = "none"
    /\ Step2Idle

\* Lines 35-39: the header row and the list of text files.
ListFiles ==
    /\ pc = "start"
    /\ data_list' = <<Header>>
    /\ allfiles' = TxtFiles(NameList(temp_zip))
    /\ fi' = 0
    /\ pc' = "loop"
    /\ UNCHANGED <<temp_zip, year, lines, li, data_csv, err, df, called, out>>

\* Lines 41-52: the next file: its year, int(year), then read and decode.
OpenEntry ==
    /\ pc = "loop"
    /\ li >= Len(lines)
    /\ fi < Len(allfiles)
    /\ LET fn == allfiles[fi + 1]
           y == YearOf(fn)
           data == ReadMember(temp_zip, fn)
       IN  /\ fi' = fi + 1
           /\ year' = y
           /\ IF ~IntAccepts(y)
              THEN /\ pc' = "failed"
                   /\ err' = "ValueError: int"
                   /\ UNCHANGED <<lines, li>>
              ELSE IF ~DecodeOk(data)
              THEN /\ pc' = "failed"
                   /\ err' = "UnicodeDecodeError"
                   /\ UNCHANGED <<lines, li>>
              ELSE /\ lines' = SplitLines(data)
                   /\ li' = 0
                   /\ UNCHANGED <<pc, err>>
    /\ UNCHANGED <<temp_zip, allfiles, data_list, data_csv, df, called, out>>

\* Lines 52-57: one line: split, unpack into three names, append.
ParseLine ==
    /\ pc = "loop"
    /\ li < Len(lines)
    /\ LET line == lines[li + 1]
       IN  /\ li' = li + 1
           /\ IF Unpacks(line)
              THEN /\ data_list' = AppendRow(data_list, Row(year, Split(line, ",")))
                   /\ UNCHANGED <<pc, err>>
              ELSE /\ pc' = "failed"
                   /\ err' = "ValueError: unpack"
                   /\ UNCHANGED data_list
    /\ UNCHANGED <<temp_zip, allfiles, fi, year, lines, data_csv, df, called, out>>

\* Mutant of WriteCsv: the write sits inside the loop over the files.
WriteCsvInLoop ==
    /\ pc = "loop"
    /\ li >= Len(lines)
    /\ fi >= Len(allfiles) \/ data_csv.rows # data_list
    /\ data_csv' = [written |-> TRUE, rows |-> data_list]
    /\ pc' = IF fi >= Len(allfiles) THEN "done" ELSE pc
    /\ UNCHANGED <<temp_zip, allfiles, fi, year, lines, li, data_list, err,
                   df, called, out>>

\* Lines 59-66: after the loop, the rows are written to data.csv.
WriteCsv ==
    /\ pc = "loop"
    /\ li >= Len(lines)
    /\ fi >= Len(allfiles)
    /\ data_csv' = [written |-> TRUE, rows |-> data_list]
    /\ pc' = "done"
    /\ UNCHANGED <<temp_zip, allfiles, fi, year, lines, li, data_list, err,
                   df, called, out>>

Next1 == ListFiles \/ OpenEntry \/ ParseLine \/ WriteCsv

Spec1 == Init1 /\ [][Next1]_vars

---------------------------------------------------------------------------
(* step2.py: the table and the pandas operations the functions use.        *)

Top10 == 10             \* head(10), [0:10]

Top20 == 20             \* head(20)

Threshold == 50000      \* at least 50,000 records on both genders

TrendingFrom == 2008    \* df["year"] >= 2008

Bob == <<"B", "o", "b">>

Cid == <<"C", "i", "d">>

\* The characters of the names, in code point order.
CharOrder == <<"B", "C", "b", "d", "i", "o">>

Ord(c) == CHOOSE i \in 1..Len(CharOrder) : CharOrder[i] = c

\* a < b for Python strings.
RECURSIVE StrLess(_, _)
StrLess(a, b) ==
    IF b = <<>> THEN FALSE
    ELSE IF a = <<>> THEN TRUE
    ELSE IF Head(a) = Head(b) THEN StrLess(Tail(a), Tail(b))
    ELSE Ord(Head(a)) < Ord(Head(b))

\* The rows data.csv may hold.
Records ==
    [year : {2000, 2008}, name : {Bob, Cid}, gender : {"M", "F"},
     count : {0, 25000, 50000}]

Tables == SeqsUpTo(Records, MaxRows)

\* df[df["gender"] == g]
OfGender(t, g) == SelectSeq(t, LAMBDA r : r.gender = g)

\* df[df["year"] >= 2008]
FromYear(t, y) == SelectSeq(t, LAMBDA r : r.year >= y)

\* Sum of the count column.
RECURSIVE SumCount(_)
SumCount(t) == IF t = <<>> THEN 0 ELSE Head(t).count + SumCount(Tail(t))

\* The group keys in ascending order, as groupby and pivot_table sort them.
RECURSIVE SortedYears(_)
SortedYears(S) ==
    IF S = {} THEN <<>>
    ELSE LET m == CHOOSE x \in S : \A y \in S : x <= y
         IN  <<m>> \o SortedYears(S \ {m})

RECURSIVE SortedNames(_)
SortedNames(S) ==
    IF S = {} THEN <<>>
    ELSE LET m == CHOOSE x \in S : \A y \in S : x = y \/ StrLess(x, y)
         IN  <<m>> \o SortedNames(S \ {m})

YearsIn(t) == SortedYears({ t[i].year : i \in 1..Len(t) })

NamesIn(t) == SortedNames({ t[i].name : i \in 1..Len(t) })

\* df.groupby("year").sum(): one row per year, ascending, with the sum of
\* count (the text columns are left out of the sum).
GroupByYear(t) ==
    LET ys == YearsIn(t)
    IN  [k \in 1..Len(ys) |->
            [year |-> ys[k],
             count |-> SumCount(SelectSeq(t, LAMBDA r : r.year = ys[k]))]]

\* df[["name", "count"]].groupby("name").sum()
GroupByName(t) ==
    LET ns == NamesIn(t)
    IN  [k \in 1..Len(ns) |->
            [name |-> ns[k],
             count |-> SumCount(SelectSeq(t, LAMBDA r : r.name = ns[k]))]]

\* head(n), [0:n]
FirstN(s, n) == SubSeq(s, 1, Min(n, Len(s)))

\* The orders sort_values(ascending=False) may return for n rows compared
\* by ge: the default kind is quicksort, which is not stable, so rows with
\* equal keys come out in either order.
DescOrders(n, ge) ==
    { p \in [1..n -> 1..n] :
        /\ \A i, j \in 1..n : i # j => p[i] # p[j]
        /\ \A i, j \in 1..n : i < j => ge[p[i], p[j]] }

\* sort_values("count", ascending=False)
SortByCountDesc(g) ==
    { [k \in 1..Len(g) |-> g[p[k]]] :
        p \in DescOrders(Len(g), [i \in 1..Len(g), j \in 1..Len(g) |->
                                      g[i].count >= g[j].count]) }

\* min()["count"], max()["count"]
MinCount(g) == CHOOSE c \in { g[k].count : k \in 1..Len(g) } :
                   \A k \in 1..Len(g) : c <= g[k].count

MaxCount(g) == CHOOSE c \in { g[k].count : k \in 1..Len(g) } :
                   \A k \in 1..Len(g) : c >= g[k].count

\* idxmin()["count"], idxmax()["count"]: the first index label attaining it.
IdxMin(g) ==
    g[CHOOSE k \in 1..Len(g) :
         /\ g[k].count = MinCount(g)
         /\ \A j \in 1..(k - 1) : g[j].count # MinCount(g)].year

IdxMax(g) ==
    g[CHOOSE k \in 1..Len(g) :
         /\ g[k].count = MaxCount(g)
         /\ \A j \in 1..(k - 1) : g[j].count # MaxCount(g)].year

---------------------------------------------------------------------------
(* totals_by_year                                                          *)

\* The two print calls for one frame g. The arguments are evaluated before
\* anything is printed, and idxmin of an empty frame raises ValueError.
PrintMinMax(label, g) ==
    IF g = <<>> THEN <<>>
    ELSE << [label |-> label, what |-> "Min", value |-> MinCount(g),
             year |-> IdxMin(g)],
            [label |-> label, what |-> "Max", value |-> MaxCount(g),
             year |-> IdxMax(g)] >>

\* Lines 66-77: the three frames, then Both, Male, Female are printed in
\* that order, up to the first empty frame.
TotalsByYearResult(t) ==
    LET both_df == GroupByYear(t)
        male_df == GroupByYear(OfGender(t, "M"))
        female_df == GroupByYear(OfGender(t, "F"))
        b == PrintMinMax("Both", both_df)
        m == IF both_df = <<>> THEN <<>> ELSE PrintMinMax("Male", male_df)
        f == IF both_df = <<>> \/ male_df = <<>> THEN <<>>
             ELSE PrintMinMax("Female", female_df)
    IN  [both_df |-> both_df, male_df |-> male_df, female_df |-> female_df,
         printed |-> b \o m \o f,
         error |-> IF both_df = <<>> \/ male_df = <<>> \/ female_df = <<>>
                   THEN "ValueError" ELSE "none"]

---------------------------------------------------------------------------
(* get_top_10                                                              *)

\* Lines 92-93, 99-100: the sorted frames of one gender.
TopFrames(t, g) == SortByCountDesc(GroupByName(OfGender(t, g)))

---------------------------------------------------------------------------
(* get_top_20_gender_neutral                                               *)

NaN == [nan |-> TRUE, v |-> 0]

Num(v) == [nan |-> FALSE, v |-> v]

\* The gender columns pivot_table makes: the genders that occur.
GenderColumns(t) == { t[i].gender : i \in 1..Len(t) }

\* One cell of pivot_table(index="name", columns="gender", aggfunc=sum):
\* NaN when the name has no row of that gender.
PivotCell(t, n, g) ==
    LET rows == SelectSeq(t, LAMBDA r : r.name = n /\ r.gender = g)
    IN  IF rows = <<>> THEN NaN ELSE Num(SumCount(rows))

\* pivot_table(...): one row per name, ascending.
PivotByGender(t) ==
    LET ns == NamesIn(t)
    IN  [k \in 1..Len(ns) |->
            [name |-> ns[k], M |-> PivotCell(t, ns[k], "M"),
             F |-> PivotCell(t, ns[k], "F")]]

\* dropna(): rows with a NaN in any column of the frame go.
DropNa(p, cols) ==
    SelectSeq(p, LAMBDA r : /\ ("M" \in cols => ~r.M.nan)
                            /\ ("F" \in cols => ~r.F.nan))

\* Mutant of AtLeastBoth: "|" in place of "&".
AtLeastEither(p) ==
    SelectSeq(p, LAMBDA r : r.M.v >= Threshold \/ r.F.v >= Threshold)

\* df[(df["M"] >= 50000) & (df["F"] >= 50000)]
AtLeastBoth(p) ==
    SelectSeq(p, LAMBDA r : r.M.v >= Threshold /\ r.F.v >= Threshold)

\* Lines 116-121. Selecting a gender column that does not exist raises
\* KeyError.
GenderNeutralResult(t) ==
    LET cols == GenderColumns(t)
    IN  IF ~({"M", "F"} \subseteq cols)
        THEN [rows |-> <<>>, error |-> "KeyError"]
        ELSE [rows |-> FirstN(AtLeastBoth(DropNa(PivotByGender(t), cols)), Top20),
              error |-> "none"]

---------------------------------------------------------------------------
(* plot_popular_names_growth, plot_top_10_trending                         *)

RECURSIVE Gcd(_, _)
Gcd(a, b) == IF b = 0 THEN a ELSE Gcd(b, a % b)

\* The number n/d (d > 0) in lowest terms; floating point values are
\* modelled by the exact quotient.
Frac(n, d) == LET g == Gcd(n, d) IN [nan |-> FALSE, num |-> n \div g, den |-> d \div g]

FracNaN == [nan |-> TRUE, num |-> 0, den |-> 1]

FracAdd(a, b) == Frac(a.num * b.den + b.num * a.den, a.den * b.den)

FracGE(a, b) == a.num * b.den >= b.num * a.den

\* pivot_table(index="name", columns="year", aggfunc=sum).fillna(0)
PivotByYear(t, n, y) ==
    SumCount(SelectSeq(t, LAMBDA r : r.name = n /\ r.year = y))

\* pivoted_df.sum(): the total of a year column.
YearTotal(t, y) == SumCount(SelectSeq(t, LAMBDA r : r.year = y))

\* pivoted_df / pivoted_df.sum() * 100: a float division, so 0 / 0 is NaN
\* and nothing is raised.
Percentage(t, n, y) ==
    IF YearTotal(t, y) = 0 THEN FracNaN
    ELSE Frac(PivotByYear(t, n, y) * 100, YearTotal(t, y))

\* percentage_df.sum(axis=1): NaN cells are skipped.
RECURSIVE RowTotal(_, _, _)
RowTotal(t, n, ys) ==
    IF ys = <<>> THEN Frac(0, 1)
    ELSE LET p == Percentage(t, n, Head(ys))
             rest == RowTotal(t, n, Tail(ys))
         IN  IF p.nan THEN rest ELSE FracAdd(p, rest)

\* One row of percentage_df.
Series(t, n) ==
    LET ys == YearsIn(t)
    IN  [name |-> n,
         series |-> [k \in 1..Len(ys) |->
                        [year |-> ys[k], pct |-> Percentage(t, n, ys[k])]]]

\* Lines 173-185, 223-235: the rows sorted by their total, descending (in
\* any order among equal totals), cut to ten.
GrowthFrames(t) ==
    LET ns == NamesIn(t)
        ys == YearsIn(t)
    IN  { FirstN([k \in 1..Len(ns) |-> Series(t, ns[p[k]])], Top10) :
            p \in DescOrders(Len(ns),
                     [i \in 1..Len(ns), j \in 1..Len(ns) |->
                        FracGE(RowTotal(t, ns[i], ys), RowTotal(t, ns[j], ys))]) }

---------------------------------------------------------------------------
(* The functions of step2.py, each called on the table of data.csv.        *)

\* Line 263: main_df = pd.read_csv("data.csv"). A run of the script then
\* calls one of the functions on main_df.
Init2 ==
    /\ df \in Tables
    /\ called = "none"
    /\ out = <<>>
    /\ Step1Idle

totals_by_year ==
    /\ called = "none"
    /\ called' = "totals_by_year"
    /\ out' = TotalsByYearResult(df)
    /\ UNCHANGED <<df, step1vars>>

get_top_10 ==
    /\ called = "none"
    /\ called' = "get_top_10"
    /\ \E m \in TopFrames(df, "M"), f \in TopFrames(df, "F") :
          out' = [male |-> FirstN(m, Top10), female |-> FirstN(f, Top10)]
    /\ UNCHANGED <<df, step1vars>>

get_top_20_gender_neutral ==
    /\ called = "none"
    /\ called' = "get_top_20_gender_neutral"
    /\ out' = GenderNeutralResult(df)
    /\ UNCHANGED <<df, step1vars>>

plot_popular_names_growth ==
    /\ called = "none"
    /\ called' = "plot_popular_names_growth"
    /\ \E s \in GrowthFrames(df) :
          out' = [table |-> df, sorted_df |-> s]
    /\ UNCHANGED <<df, step1vars>>

plot_top_10_trending ==
    /\ called = "none"
    /\ called' = "plot_top_10_trending"
    /\ LET filtered_df == FromYear(df, TrendingFrom)
       IN  \E s \in GrowthFrames(filtered_df) :
              out' = [table |-> filtered_df, sorted_df |-> s]
    /\ UNCHANGED <<df, step1vars>>

Next2 ==
    \/ totals_by_year
    \/ get_top_10
    \/ get_top_20_gender_neutral
    \/ plot_popular_names_growth
    \/ plot_top_10_trending

Spec2 == Init2 /\ [][Next2]_vars

---------------------------------------------------------------------------
(* What the archive holds, computed member by member from the archive      *)
(* itself (not from the script's variables).                               *)

Qualifies(m) == EndsWith(m.filename, TxtSuffix)

\* The row a line of member m stands for: the member's year, then the
\* line's comma-separated fields.
LineRow(m, line) == <<Slice(m.filename, 3, 7)>> \o Split(line, ",")

MemberRows(m) ==
    LET ls == SplitLines(m.data)
    IN  [k \in 1..Len(ls) |-> LineRow(m, ls[k])]

\* The rows of the qualifying members, member after member.
RECURSIVE ConcatRows(_)
ConcatRows(z) ==
    IF z = <<>> THEN <<>>
    ELSE IF Qualifies(Head(z)) THEN MemberRows(Head(z)) \o ConcatRows(Tail(z))
    ELSE ConcatRows(Tail(z))

\* The number of lines of the first n qualifying members.
RECURSIVE LinesOfFirst(_, _)
LinesOfFirst(z, n) ==
    IF z = <<>> \/ n <= 0 THEN 0
    ELSE IF Qualifies(Head(z))
         THEN Len(SplitLines(Head(z).data)) + LinesOfFirst(Tail(z), n - 1)
         ELSE LinesOfFirst(Tail(z), n)

TotalLines(z) == LinesOfFirst(z, Len(z))

\* The member whose line gave the k-th record (k >= 1), going by the
\* members' line counts; <<>> when there is no such record.
RECURSIVE OriginName(_, _)
OriginName(z, k) ==
    IF z = <<>> THEN <<>>
    ELSE IF ~Qualifies(Head(z)) THEN OriginName(Tail(z), k)
    ELSE IF k <= Len(SplitLines(Head(z).data)) THEN Head(z).filename
    ELSE OriginName(Tail(z), k - Len(SplitLines(Head(z).data)))

IsYear(y) == Len(y) = 4 /\ \A i \in 1..4 : y[i] \in Digits

MalformedLine(line) == Len(Split(line, ",")) # 3

HasMalformedLine(z) ==
    \E i \in 1..Len(z) :
        /\ Qualifies(z[i])
        /\ \E k \in 1..Len(SplitLines(z[i].data)) :
              MalformedLine(SplitLines(z[i].data)[k])

---------------------------------------------------------------------------
(* Claims about step1.py, checked under Spec1.                             *)

C2_YearOfOwnMember ==
    \A i \in 2..Len(data_list) :
        /\ IsYear(data_list[i][1])
        /\ data_list[i][1] = Slice(OriginName(temp_zip, i - 1), 3, 7)

\* Records of two members with different years are in the table.
C2_Witness ==
    /\ Len(data_list) >= 3
    /\ data_list[2][1] # data_list[Len(data_list)][1]

C5_CountsAreNumeric ==
    /\ \A i \in 2..Len(data_list) : IntAccepts(data_list[i][4])
    /\ \A i \in 2..Len(data_csv.rows) : IntAccepts(data_csv.rows[i][4])

\* C6 (as claimed): an archive without a qualifying member never
\* completes and never writes data.csv.
C6_EmptyArchiveFails ==
    TxtFiles(NameList(temp_zip)) = <<>> =>
        /\ pc # "done"
        /\ ~data_csv.written

---------------------------------------------------------------------------
(* Claims about step2.py, checked under Spec2.                             *)

\* The groups of gender g ranked by summed count descending, and by name
\* ascending among equal counts.
RankedByCountThenName(t, g) ==
    CHOOSE s \in SortByCountDesc(GroupByName(OfGender(t, g))) :
        \A i, j \in 1..Len(s) :
            (i < j /\ s[i].count = s[j].count) => StrLess(s[i].name, s[j].name)

\* C7 (as claimed): the top-N of a gender lists (name, summed count) by
\* summed count descending, equal counts by name ascending, cut to N.
C7_TopNTiesByName ==
    called = "get_top_10" =>
        /\ out.male = FirstN(RankedByCountThenName(df, "M"), Top10)
        /\ out.female = FirstN(RankedByCountThenName(df, "F"), Top10)

RowsOf(t, n, g) == SelectSeq(t, LAMBDA r : r.name = n /\ r.gender = g)

\* C8: every name the gender-neutral top-N returns has a record under M
\* and one under F, and its summed count under each gender is at least
\* the threshold.
C8_NeutralNamesInBothGenders ==
    called = "get_top_20_gender_neutral" =>
        \A k \in 1..Len(out.rows) :
            LET n == out.rows[k].name
            IN  /\ RowsOf(df, n, "M") # <<>>
                /\ RowsOf(df, n, "F") # <<>>
                /\ SumCount(RowsOf(df, n, "M")) >= Threshold
                /\ SumCount(RowsOf(df, n, "F")) >= Threshold

\* A name was returned while another name, recorded under one gender only
\* with a count at the threshold, was not.
C8_Witness ==
    /\ called = "get_top_20_gender_neutral"
    /\ Len(out.rows) = 1
    /\ \E i \in 1..Len(df) :
          /\ df[i].name # out.rows[1].name
          /\ df[i].count >= Threshold
          /\ RowsOf(df, df[i].name, "M") = <<>> \/ RowsOf(df, df[i].name, "F") = <<>>

\* The sum of the percentages of all names at position k of their series.
RECURSIVE PctSum(_, _)
PctSum(rows, k) ==
    IF rows = <<>> THEN Frac(0, 1)
    ELSE FracAdd(Head(rows).series[k].pct, PctSum(Tail(rows), k))

\* C9 (as claimed): in a growth series, a name's percentage in a year is
\* its summed count over the year's total times 100, the percentages of a
\* year with a non-zero total sum to 100, and a year with a zero total
\* gives 0% (or is left out), never an undefined value.
C9_PercentagesDefined ==
    called \in {"plot_popular_names_growth", "plot_top_10_trending"} =>
        \A r \in 1..Len(out.sorted_df) :
            \A k \in 1..Len(out.sorted_df[r].series) :
                LET row == out.sorted_df[r]
                    y == row.series[k].year
                    pct == row.series[k].pct
                    c == SumCount(SelectSeq(out.table,
                            LAMBDA x : x.name = row.name /\ x.year = y))
                    total == SumCount(SelectSeq(out.table, LAMBDA x : x.year = y))
                IN  /\ ~pct.nan
                    /\ total # 0 =>
                          /\ pct.num * total = 100 * c * pct.den
                          /\ PctSum(out.sorted_df, k) = Frac(100, 1)
                    /\ total = 0 => pct.num = 0

\* The printed lines of one variant.
Printed(label, what) ==
    { out.printed[k] : k \in { j \in 1..Len(out.printed) :
          out.printed[j].label = label /\ out.printed[j].what = what } }

VariantTotals(t) ==
    { SumCount(SelectSeq(t, LAMBDA r : r.year = y)) :
        y \in { t[i].year : i \in 1..Len(t) } }

\* The variant with records t is reported under label: one Min line and
\* one Max line, with the smallest and largest yearly total and a year
\* whose total it is.
Reported(label, t) ==
    /\ \E l \in Printed(label, "Min") :
          /\ l.value \in VariantTotals(t)
          /\ \A v \in VariantTotals(t) : l.value <= v
          /\ SumCount(SelectSeq(t, LAMBDA r : r.year = l.year)) = l.value
    /\ \E l \in Printed(label, "Max") :
          /\ l.value \in VariantTotals(t)
          /\ \A v \in VariantTotals(t) : l.value >= v
          /\ SumCount(SelectSeq(t, LAMBDA r : r.year = l.year)) = l.value

SameReport(a, b) ==
    \A what \in {"Min", "Max"} :
        { [value |-> l.value, year |-> l.year] : l \in Printed(a, what) }
          = { [value |-> l.value, year |-> l.year] : l \in Printed(b, what) }

\* C10 (as claimed): for a non-empty table, each of the three variants that
\* has records is reported with the min and max of its yearly totals and
\* years attaining them, and when every record has the same gender that
\* gender's report equals the combined report.
C10_TotalsReported ==
    (called = "totals_by_year" /\ df # <<>>) =>
        /\ Reported("Both", df)
        /\ OfGender(df, "M") # <<>> => Reported("Male", OfGender(df, "M"))
        /\ OfGender(df, "F") # <<>> => Reported("Female", OfGender(df, "F"))
        /\ OfGender(df, "M") = df => SameReport("Male", "Both")
        /\ OfGender(df, "F") = df => SameReport("Female", "Both")

===========================================================================
